---------------------------- MODULE Spec2Model ----------------------------
(***************************************************************************)
(* Model of image_size_compressor.js: compressImageToTarget, the quality   *)
(* binary search (binarySearch) and the downscale retry loop               *)
(* (attemptCompression), together with drawImageToCanvas.                  *)
(*                                                                         *)
(* Numbers.  Qualities are exact multiples of 1/QScale (QScale = 40960),   *)
(* which represents every midpoint (low + high) / 2 the search can form    *)
(* from the modelled bounds without rounding.  Blob sizes are integers in  *)
(* bytes, and "blob.size / 1024 <= targetSizeKB" is modelled by the         *)
(* equivalent comparison in bytes.  downscaleRatio is an exact decimal     *)
(* num / 10^exp whose numerator is a little-endian digit sequence, so that *)
(* 0.9^14 is representable.  For the image dimensions modelled here the    *)
(* double-precision results of Math.round(...) in drawImageToCanvas equal  *)
(* the exact round-half-up values computed below.                          *)
(***************************************************************************)
EXTENDS Integers, Sequences, FiniteSets, TLC

VARIABLES
  pc,             \* position of the request's promise chain
  image,          \* the decoded image: [width, height]
  options,        \* the options object passed by the caller (partial function)
  encoder,        \* behaviour of canvas.toBlob: [kind, slopeKB]
  cfg,            \* closure variables of compressImageToTarget (lines 121-132)
  downscaleRatio, \* line 137
  canvas,         \* line 142
  low, high, currentQuality, iteration, bestBlob,  \* lines 145-149
  lastBlob,       \* the blob of the latest canvasToBlob callback (line 153)
  searchResult,   \* value binarySearch() resolved with (blobResult, line 178)
  result,         \* value the returned promise resolved with
  renders,        \* history: one record per drawImageToCanvas call
  encodeCalls,    \* history: number of canvasToBlob calls
  decodeCalls,    \* history: number of loadImageFromFile calls
  encoded,        \* history: the blobs of the current search, in order
  encodeReturns,  \* history: number of canvasToBlob callbacks that ran
  searchReturns   \* history: number of searches that returned (line 168)

vars == <<pc, image, options, encoder, cfg, downscaleRatio, canvas, low, high,
          currentQuality, iteration, bestBlob, lastBlob, searchResult, result,
          renders, encodeCalls, decodeCalls, encoded, encodeReturns,
          searchReturns>>

----------------------------------------------------------------------------
(* Bounds of the model *)

\* largest maxIterations supplied together with the unconstrained encoder
MaxFreeIter == 3
\* largest image width / height and largest maxWidth / maxHeight
MaxDim == 6

----------------------------------------------------------------------------
(* Program constants *)

BytesPerKB == 1024
ToleranceKB == 5
DefaultMaxIterations == 10
ScaleStepTenths == 9
ScaleFloorInverse == 4

QScale == 40 * 1024
DefaultMinQuality == QScale \div 10
DefaultMaxQuality == (QScale \div 20) * 19

----------------------------------------------------------------------------
(* Exact arithmetic helpers *)

Abs(x) == IF x < 0 THEN -x ELSE x

\* Math.round(a / b) for a >= 0, b > 0: round half up
RoundDiv(a, b) == (2 * a + b) \div (2 * b)

RECURSIVE MulDigits(_, _, _)
\* little-endian decimal digits of (value of ds) * k + carry; the digit
\* product v is bound through a singleton set so that it is evaluated once
MulDigits(ds, k, carry) ==
  IF ds = <<>>
  THEN IF carry = 0 THEN <<>>
       ELSE <<carry % 10>> \o MulDigits(<<>>, k, carry \div 10)
  ELSE CHOOSE r \in {<<v % 10>> \o MulDigits(Tail(ds), k, v \div 10) :
                       v \in {Head(ds) * k + carry}} : TRUE

RECURSIVE DigitsValue(_)
DigitsValue(ds) ==
  IF ds = <<>> THEN 0 ELSE Head(ds) + 10 * DigitsValue(Tail(ds))

\* the value 1.0 of "var downscaleRatio = 1.0"
RatioOne == [num |-> <<1>>, exp |-> 0]

\* ratio < 1
RatioLessThanOne(r) == r.exp > 0 /\ Len(r.num) <= r.exp

\* ratio > 1 / d, i.e. d * num > 10^exp
RatioGreaterThanInverse(r, d) ==
  \E D \in {MulDigits(r.num, d, 0)} :
     \/ Len(D) > r.exp + 1
     \/ /\ Len(D) = r.exp + 1
        /\ \/ D[r.exp + 1] > 1
           \/ \E i \in 1..r.exp : D[i] # 0

\* ratio < 1 / d, i.e. d * num < 10^exp
RatioLessThanInverse(r, d) == Len(MulDigits(r.num, d, 0)) <= r.exp

\* n zeros
Zeros(n) == [i \in 1..n |-> 0]

RECURSIVE DigitsLeq(_, _)
\* (value of a) <= (value of b) for little-endian digit sequences of equal
\* length
DigitsLeq(a, b) ==
  IF a = <<>> THEN TRUE
  ELSE LET n == Len(a)
       IN  IF a[n] # b[n] THEN a[n] < b[n]
           ELSE DigitsLeq(SubSeq(a, 1, n - 1), SubSeq(b, 1, n - 1))

\* r1 <= r2
RatioLeq(r1, r2) ==
  LET e  == IF r1.exp > r2.exp THEN r1.exp ELSE r2.exp
      a0 == Zeros(e - r1.exp) \o r1.num
      b0 == Zeros(e - r2.exp) \o r2.num
      n  == IF Len(a0) > Len(b0) THEN Len(a0) ELSE Len(b0)
  IN  DigitsLeq(a0 \o Zeros(n - Len(a0)), b0 \o Zeros(n - Len(b0)))

\* Math.round(n * ratio) for an integer n >= 0
RoundTimesRatio(n, r) ==
  CHOOSE v \in
    {(IF Len(D) > r.exp
      THEN DigitsValue(SubSeq(D, r.exp + 1, Len(D))) ELSE 0)
     + (IF r.exp >= 1 /\ Len(D) >= r.exp /\ D[r.exp] >= 5 THEN 1 ELSE 0) :
       D \in {MulDigits(r.num, n, 0)}} : TRUE

----------------------------------------------------------------------------
(* drawImageToCanvas, lines 61-86.  maxWidth / maxHeight = 0 stands for    *)
(* null: "options.maxWidth || null" maps every falsy value to null and     *)
(* "maxWidth && ..." treats null and 0 alike.                              *)

\* lines 66-69
ScaleByRatio(img, ratio) ==
  IF RatioLessThanOne(ratio)
  THEN [width  |-> RoundTimesRatio(img.width, ratio),
        height |-> RoundTimesRatio(img.height, ratio)]
  ELSE [width |-> img.width, height |-> img.height]

\* mutant of ClampToMaxWidth: the height is not rescaled
ClampToMaxWidth_KeepsHeight(d, maxWidth) ==
  IF maxWidth # 0 /\ d.width > maxWidth
  THEN [width |-> maxWidth, height |-> d.height]
  ELSE d

\* lines 71-74
ClampToMaxWidth(d, maxWidth) ==
  IF maxWidth # 0 /\ d.width > maxWidth
  THEN [width  |-> maxWidth,
        height |-> RoundDiv(d.height * maxWidth, d.width)]
  ELSE d

\* mutant of ClampToMaxHeight: the test compares the width with maxHeight
ClampToMaxHeight_TestsWidth(d, maxHeight) ==
  IF maxHeight # 0 /\ d.width > maxHeight
  THEN [width  |-> RoundDiv(d.width * maxHeight, d.height),
        height |-> maxHeight]
  ELSE d

\* lines 75-78
ClampToMaxHeight(d, maxHeight) ==
  IF maxHeight # 0 /\ d.height > maxHeight
  THEN [width  |-> RoundDiv(d.width * maxHeight, d.height),
        height |-> maxHeight]
  ELSE d

\* the three steps in the order of the source; each intermediate size is
\* bound through a singleton set so that it is evaluated once
drawImageToCanvas(img, maxWidth, maxHeight, ratio) ==
  CHOOSE c \in
    {ClampToMaxHeight(d2, maxHeight) :
       d2 \in {ClampToMaxWidth(d1, maxWidth) :
                 d1 \in {ScaleByRatio(img, ratio)}}} : TRUE

----------------------------------------------------------------------------
(* Pieces of binarySearch (lines 152-175) and of the retry decision        *)
(* (lines 178-188)                                                         *)

NoBlob == [size |-> -1, quality |-> -1, attempt |-> 0, iteration |-> 0]

\* mutant of Conforms: the comparison is reversed
Conforms_Reversed(size, targetSizeKB) == size >= targetSizeKB * BytesPerKB

\* sizeKB <= targetSizeKB, line 157
Conforms(size, targetSizeKB) == size <= targetSizeKB * BytesPerKB

\* mutant of WithinTolerance: the tolerance is taken twice as wide
WithinTolerance_Doubled(size, targetSizeKB) ==
  Abs(size - targetSizeKB * BytesPerKB) <= 2 * ToleranceKB * BytesPerKB

\* Math.abs(sizeKB - targetSizeKB) <= 5, line 167
WithinTolerance(size, targetSizeKB) ==
  Abs(size - targetSizeKB * BytesPerKB) <= ToleranceKB * BytesPerKB

\* mutant of SearchStops: the iteration bound is tested with > instead of >=
SearchStops_LateStop(iter, maxIterations, size, targetSizeKB) ==
  iter > maxIterations \/ WithinTolerance(size, targetSizeKB)

\* iteration >= maxIterations || Math.abs(sizeKB - targetSizeKB) <= 5
SearchStops(iter, maxIterations, size, targetSizeKB) ==
  iter >= maxIterations \/ WithinTolerance(size, targetSizeKB)

\* variant: the search returns the blob of its last encode
BestOrLast_AlwaysLast(best, blob) == blob

\* bestBlob || blob, line 168
BestOrLast(best, blob) == IF best # NoBlob THEN best ELSE blob

\* mutant of Midpoint: the next quality is the ceiling instead of the middle
Midpoint_KeepsHigh(lo, hi) == hi

\* (low + high) / 2, line 172
Midpoint(lo, hi) == (lo + hi) \div 2

\* mutant of ShouldRetry: retries go on while downscaleRatio > 0.2
ShouldRetry_FloorAtFifth(size, targetSizeKB, allowScaleDown, ratio) ==
  /\ size > (targetSizeKB + ToleranceKB) * BytesPerKB
  /\ allowScaleDown
  /\ RatioGreaterThanInverse(ratio, 5)

\* mutant of ShouldRetry: retries stop once downscaleRatio <= 0.5
ShouldRetry_StopsAtHalf(size, targetSizeKB, allowScaleDown, ratio) ==
  /\ size > (targetSizeKB + ToleranceKB) * BytesPerKB
  /\ allowScaleDown
  /\ RatioGreaterThanInverse(ratio, 2)

\* finalSizeKB > targetSizeKB + 5 && allowScaleDown && downscaleRatio > 0.25
ShouldRetry(size, targetSizeKB, allowScaleDown, ratio) ==
  /\ size > (targetSizeKB + ToleranceKB) * BytesPerKB
  /\ allowScaleDown
  /\ RatioGreaterThanInverse(ratio, ScaleFloorInverse)

\* downscaleRatio *= scaleStep, line 183 (scaleStep = 0.9, line 133)
ScaleDown(ratio) ==
  [num |-> MulDigits(ratio.num, ScaleStepTenths, 0), exp |-> ratio.exp + 1]

----------------------------------------------------------------------------
(* The options object and the defaults of lines 121-132 *)

Has(o, k) == k \in DOMAIN o

\* options.k || d for a numeric option
OrDefault(o, k, d) == IF Has(o, k) /\ o[k] # 0 THEN o[k] ELSE d

\* mutant of NotFalse: the option is ignored
NotFalse_Ignored(o, k) == TRUE

\* options.allowScaleDown !== false
NotFalse(o, k) == ~(Has(o, k) /\ o[k] = FALSE)

\* !targetSizeKB, line 122
TargetMissing(o) == ~(Has(o, "targetSizeKB") /\ o["targetSizeKB"] # 0)

ReadOptions(o) ==
  [targetSizeKB      |-> OrDefault(o, "targetSizeKB", 0),
   maxWidth          |-> OrDefault(o, "maxWidth", 0),
   maxHeight         |-> OrDefault(o, "maxHeight", 0),
   maxIterations     |-> OrDefault(o, "maxIterations", DefaultMaxIterations),
   minQualitySetting |-> OrDefault(o, "minQuality", DefaultMinQuality),
   maxQualitySetting |-> OrDefault(o, "maxQuality", DefaultMaxQuality),
   allowScaleDown    |-> NotFalse(o, "allowScaleDown")]

NoCfg ==
  [targetSizeKB |-> 0, maxWidth |-> 0, maxHeight |-> 0, maxIterations |-> 0,
   minQualitySetting |-> 0, maxQualitySetting |-> 0, allowScaleDown |-> FALSE]

----------------------------------------------------------------------------
(* The environment: requests, images and the encoder behind canvas.toBlob  *)

\* the width of one step of the step encoder, in units of 1/QScale
StepWidth == QScale \div 8

\* an option that may be absent from the options object
Optional(k, vals) == {<<>>} \cup {k :> v : v \in vals}

\* sizes (bytes) the encoder may return for one canvasToBlob call.  The
\* "free" encoder returns any of four sizes around the target: just outside
\* the tolerance below, exactly the target, on the upper edge of the
\* tolerance, and just outside the tolerance above.  The "linear" encoder
\* returns slopeKB * quality kilobytes.  The "step" encoder returns the size
\* the linear encoder has at the quality rounded down to a multiple of
\* 1/8, so its size is non-decreasing, but not increasing, in quality.
EncoderSizes(enc, quality, targetSizeKB) ==
  IF enc.kind = "linear"
  THEN {(enc.slopeKB * quality) \div (QScale \div BytesPerKB)}
  ELSE IF enc.kind = "step"
  THEN {(enc.slopeKB * ((quality \div StepWidth) * StepWidth))
          \div (QScale \div BytesPerKB)}
  ELSE LET t == targetSizeKB * BytesPerKB
           d == ToleranceKB * BytesPerKB
       IN  {s \in {t - d - 1, t, t + d, t + d + 1} : s >= 0}

FreeEncoder == [kind |-> "free", slopeKB |-> 0]
LinearEncoders == {[kind |-> "linear", slopeKB |-> k] : k \in {1000, 4000, 20000}}
StepEncoders == {[kind |-> "step", slopeKB |-> 1000]}

\* requests served by the free encoder
FreeRequests ==
  {t @@ it @@ mn @@ asd @@ mw :
     t   \in {"targetSizeKB" :> 300},
     it  \in {"maxIterations" :> i : i \in 1..MaxFreeIter},
     mn  \in Optional("minQuality", {QScale \div 2}),
     asd \in Optional("allowScaleDown", {TRUE, FALSE}),
     mw  \in Optional("maxWidth", {2})}

\* requests served by a linear or a step encoder
LinearRequests ==
  {t @@ it @@ mn @@ mx @@ asd @@ mh :
     t   \in Optional("targetSizeKB", {0, -1, 283, 300, 2000}),
     it  \in Optional("maxIterations", {0, 10, 12}),
     mn  \in Optional("minQuality", {0, QScale \div 20}),
     mx  \in Optional("maxQuality", {QScale \div 20, (QScale \div 20) * 19,
                                     QScale}),
     asd \in Optional("allowScaleDown", {TRUE, FALSE}),
     mh  \in Optional("maxHeight", {2})}

MainImage == [width |-> 4, height |-> 3]

----------------------------------------------------------------------------
(* Initial state: a request is about to be made *)

IdleState ==
  /\ downscaleRatio = RatioOne
  /\ canvas = [width |-> 0, height |-> 0]
  /\ low = 0 /\ high = 0 /\ currentQuality = 0 /\ iteration = 0
  /\ bestBlob = NoBlob
  /\ lastBlob = NoBlob
  /\ searchResult = NoBlob
  /\ result = NoBlob
  /\ renders = <<>>
  /\ encodeCalls = 0
  /\ decodeCalls = 0
  /\ encoded = <<>>
  /\ encodeReturns = 0
  /\ searchReturns = 0

Init ==
  /\ pc = "idle"
  /\ image = MainImage
  /\ \/ encoder = FreeEncoder /\ options \in FreeRequests
     \/ encoder \in LinearEncoders \cup StepEncoders
        /\ options \in LinearRequests
  /\ cfg = NoCfg
  /\ IdleState

----------------------------------------------------------------------------
(* Actions *)

\* compressImageToTarget, lines 118-136: validate, read the options, start
\* loadImageFromFile
compressImageToTarget ==
  /\ pc = "idle"
  /\ IF TargetMissing(options)
     THEN /\ pc' = "rejected"
          /\ UNCHANGED <<cfg, decodeCalls>>
     ELSE /\ cfg' = ReadOptions(options)
          /\ decodeCalls' = decodeCalls + 1
          /\ pc' = "loading"
  /\ UNCHANGED <<image, options, encoder, downscaleRatio, canvas, low, high,
                 currentQuality, iteration, bestBlob, lastBlob, searchResult,
                 result, renders, encodeCalls, encoded, encodeReturns,
                 searchReturns>>

\* variant: attemptCompression issues a second, speculative canvasToBlob call
\* without waiting for the first
AttemptCompression_TwoEncodes(ratio) ==
  \E c \in {drawImageToCanvas(image, cfg.maxWidth, cfg.maxHeight, ratio)} :
      /\ canvas' = c
      /\ renders' = Append(renders, [ratio  |-> ratio,
                                     width  |-> c.width,
                                     height |-> c.height])
      /\ low' = cfg.minQualitySetting
      /\ high' = cfg.maxQualitySetting
      /\ currentQuality' = cfg.maxQualitySetting
      /\ iteration' = 0
      /\ bestBlob' = NoBlob
      /\ lastBlob' = NoBlob
      /\ encoded' = <<>>
      /\ encodeCalls' = encodeCalls + 2
      /\ pc' = "encoding"

\* body of attemptCompression up to the first canvasToBlob call,
\* lines 140-153: render at the given ratio, reset the search, issue the
\* first encode
AttemptCompression(ratio) ==
  \E c \in {drawImageToCanvas(image, cfg.maxWidth, cfg.maxHeight, ratio)} :
      /\ canvas' = c
      /\ renders' = Append(renders, [ratio  |-> ratio,
                                     width  |-> c.width,
                                     height |-> c.height])
      /\ low' = cfg.minQualitySetting
      /\ high' = cfg.maxQualitySetting
      /\ currentQuality' = cfg.maxQualitySetting
      /\ iteration' = 0
      /\ bestBlob' = NoBlob
      /\ lastBlob' = NoBlob
      /\ encoded' = <<>>
      /\ encodeCalls' = encodeCalls + 1
      /\ pc' = "encoding"

\* loadImageFromFile resolves (img.onload), lines 136-137 and 192
LoadDone ==
  /\ pc = "loading"
  /\ downscaleRatio' = RatioOne
  /\ AttemptCompression(RatioOne)
  /\ UNCHANGED <<image, options, encoder, cfg, searchResult, result,
                 decodeCalls, encodeReturns, searchReturns>>

\* loadImageFromFile rejects (reader.onerror / img.onerror), lines 41-48
LoadError ==
  /\ pc = "loading"
  /\ pc' = "failed"
  /\ UNCHANGED <<image, options, encoder, cfg, downscaleRatio, canvas, low,
                 high, currentQuality, iteration, bestBlob, lastBlob,
                 searchResult, result, renders, encodeCalls, decodeCalls,
                 encoded, encodeReturns, searchReturns>>

\* mutant of EncodeDone: bestBlob, once set, is not replaced by a later
\* conforming blob
EncodeDone_KeepsFirstBest ==
  /\ pc = "encoding"
  /\ \E size \in EncoderSizes(encoder, currentQuality, cfg.targetSizeKB) :
       LET blob    == [size |-> size, quality |-> currentQuality,
                       attempt |-> Len(renders), iteration |-> iteration + 1]
           ok      == Conforms(size, cfg.targetSizeKB)
           newBest == IF ok /\ bestBlob = NoBlob THEN blob ELSE bestBlob
           newLow  == IF ok THEN currentQuality ELSE low
           newHigh == IF ok THEN high ELSE currentQuality
       IN  /\ bestBlob' = newBest
           /\ lastBlob' = blob
           /\ encoded' = Append(encoded, blob)
           /\ encodeReturns' = encodeReturns + 1
           /\ low' = newLow
           /\ high' = newHigh
           /\ iteration' = iteration + 1
           /\ IF SearchStops(iteration + 1, cfg.maxIterations, size,
                             cfg.targetSizeKB)
              THEN /\ searchResult' = BestOrLast(newBest, blob)
                   /\ searchReturns' = searchReturns + 1
                   /\ pc' = "searchDone"
                   /\ UNCHANGED <<currentQuality, encodeCalls>>
              ELSE /\ currentQuality' = Midpoint(newLow, newHigh)
                   /\ encodeCalls' = encodeCalls + 1
                   /\ pc' = "encoding"
                   /\ UNCHANGED <<searchResult, searchReturns>>
  /\ UNCHANGED <<image, options, encoder, cfg, downscaleRatio, canvas, result,
                 renders, decodeCalls>>

\* the callback of canvasToBlob inside binarySearch, lines 153-174
EncodeDone ==
  /\ pc = "encoding"
  /\ \E size \in EncoderSizes(encoder, currentQuality, cfg.targetSizeKB) :
       LET blob    == [size |-> size, quality |-> currentQuality,
                       attempt |-> Len(renders), iteration |-> iteration + 1]
           ok      == Conforms(size, cfg.targetSizeKB)
           newBest == IF ok THEN blob ELSE bestBlob
           newLow  == IF ok THEN currentQuality ELSE low
           newHigh == IF ok THEN high ELSE currentQuality
       IN  /\ bestBlob' = newBest
           /\ lastBlob' = blob
           /\ encoded' = Append(encoded, blob)
           /\ encodeReturns' = encodeReturns + 1
           /\ low' = newLow
           /\ high' = newHigh
           /\ iteration' = iteration + 1
           /\ IF SearchStops(iteration + 1, cfg.maxIterations, size,
                             cfg.targetSizeKB)
              THEN /\ searchResult' = BestOrLast(newBest, blob)
                   /\ searchReturns' = searchReturns + 1
                   /\ pc' = "searchDone"
                   /\ UNCHANGED <<currentQuality, encodeCalls>>
              ELSE /\ currentQuality' = Midpoint(newLow, newHigh)
                   /\ encodeCalls' = encodeCalls + 1
                   /\ pc' = "encoding"
                   /\ UNCHANGED <<searchResult, searchReturns>>
  /\ UNCHANGED <<image, options, encoder, cfg, downscaleRatio, canvas, result,
                 renders, decodeCalls>>

\* the callback on binarySearch()'s result, lines 178-188
AttemptThen ==
  /\ pc = "searchDone"
  /\ IF ShouldRetry(searchResult.size, cfg.targetSizeKB, cfg.allowScaleDown,
                    downscaleRatio)
     THEN /\ \E r \in {ScaleDown(downscaleRatio)} :
               /\ downscaleRatio' = r
               /\ AttemptCompression(r)
          /\ UNCHANGED result
     ELSE /\ result' = searchResult
          /\ pc' = "done"
          /\ UNCHANGED <<downscaleRatio, canvas, low, high, currentQuality,
                         iteration, bestBlob, lastBlob, renders,
                         encodeCalls, encoded>>
  /\ UNCHANGED <<image, options, encoder, cfg, searchResult, decodeCalls,
                 encodeReturns, searchReturns>>

Next ==
  \/ compressImageToTarget
  \/ LoadDone
  \/ LoadError
  \/ EncodeDone
  \/ AttemptThen

Spec == Init /\ [][Next]_vars

\* every pending load or encode eventually completes and every promise
\* callback eventually runs: a request has at most one pending step, so the
\* request never stops while a step is enabled
LiveSpec ==
  /\ Spec
  /\ WF_vars(Next)

----------------------------------------------------------------------------
(* drawImageToCanvas on its own: every image size and every maxWidth /     *)
(* maxHeight setting up to MaxDim, at every downscaleRatio the retry loop  *)
(* can reach                                                               *)

DrawRequests ==
  {mw @@ mh : mw \in Optional("maxWidth", 0..MaxDim),
              mh \in Optional("maxHeight", 0..MaxDim)}

InitDraw ==
  /\ pc = "draw"
  /\ image \in [width : 1..MaxDim, height : 1..MaxDim]
  /\ encoder = FreeEncoder
  /\ options \in DrawRequests
  /\ cfg = ReadOptions(options)
  /\ IdleState

\* the call of line 142
DrawRender ==
  /\ pc = "draw"
  /\ \E c \in {drawImageToCanvas(image, cfg.maxWidth, cfg.maxHeight,
                                 downscaleRatio)} :
       /\ canvas' = c
       /\ renders' = Append(renders, [ratio  |-> downscaleRatio,
                                      width  |-> c.width,
                                      height |-> c.height])
  /\ pc' = "drawn"
  /\ UNCHANGED <<image, options, encoder, cfg, downscaleRatio, low, high,
                 currentQuality, iteration, bestBlob, lastBlob, searchResult,
                 result, encodeCalls, decodeCalls, encoded, encodeReturns,
                 searchReturns>>

\* the ratio update of lines 182-183
DrawShrink ==
  /\ pc = "drawn"
  /\ RatioGreaterThanInverse(downscaleRatio, ScaleFloorInverse)
  /\ downscaleRatio' = ScaleDown(downscaleRatio)
  /\ pc' = "draw"
  /\ UNCHANGED <<image, options, encoder, cfg, canvas, low, high,
                 currentQuality, iteration, bestBlob, lastBlob, searchResult,
                 result, renders, encodeCalls, decodeCalls, encoded,
                 encodeReturns, searchReturns>>

NextDraw ==
  \/ DrawRender
  \/ DrawShrink

SpecDraw == InitDraw /\ [][NextDraw]_vars

TypeOK ==
  /\ pc \in {"idle", "rejected", "loading", "failed", "encoding",
             "searchDone", "done", "draw", "drawn"}
  /\ iteration \in Nat
  /\ encodeCalls \in Nat

----------------------------------------------------------------------------
(* Predicates shared by the properties *)

\* the value an option has when it is supplied, its documented default
\* otherwise
Given(o, k, d) == IF Has(o, k) THEN o[k] ELSE d

\* a request as the data model describes it: positive target, positive
\* maxIterations, 0 <= minQuality < maxQuality <= 1
ValidRequest ==
  /\ Has(options, "targetSizeKB") /\ options["targetSizeKB"] > 0
  /\ Given(options, "maxIterations", DefaultMaxIterations) >= 1
  /\ 0 <= Given(options, "minQuality", DefaultMinQuality)
  /\ Given(options, "minQuality", DefaultMinQuality)
       < Given(options, "maxQuality", DefaultMaxQuality)
  /\ Given(options, "maxQuality", DefaultMaxQuality) <= QScale

\* the request passed the check of line 122
Accepted == pc \notin {"idle", "rejected"}

\* size > target + tolerance
OverTolerance(size) == size > (cfg.targetSizeKB + ToleranceKB) * BytesPerKB

Returned == pc = "done" /\ result # NoBlob

----------------------------------------------------------------------------
(* C1 *)

\* C1: every request that passes validation eventually returns a blob once
\* its image is decoded, whatever sizes the encoder returns, and at every
\* moment the number of encode calls made so far is at most maxIterations
\* times the number of downscale attempts (renders) made so far.
C1_TerminatesWithinEncodeBound ==
  /\ [](Accepted => encodeCalls <= cfg.maxIterations * Len(renders))
  /\ ((pc = "encoding") ~> Returned)

\* a request that went through every downscale attempt and used the whole
\* encode budget of each
C1_Witness ==
  /\ Returned
  /\ Len(renders) > 1
  /\ cfg.maxIterations > 1
  /\ encodeCalls = cfg.maxIterations * Len(renders)

----------------------------------------------------------------------------
(* C2 *)

\* C2: if the target size is missing, zero or negative, the request fails
\* with an invalid-argument error and no decode, render or encode call is
\* made for it.
C2_NonPositiveTargetRejected ==
  (~Has(options, "targetSizeKB") \/ options["targetSizeKB"] <= 0)
    => /\ pc \in {"idle", "rejected"}
       /\ decodeCalls = 0
       /\ renders = <<>>
       /\ encodeCalls = 0

----------------------------------------------------------------------------
(* C3 *)

\* C3: a returned blob larger than target + tolerance implies that
\* allowScaleDown is false or the final downscaleRatio is <= 0.25; an attempt
\* whose search result exceeds target + tolerance while allowScaleDown holds
\* and downscaleRatio > 0.25 is followed by a new attempt rendered at
\* downscaleRatio * 0.9.
C3_OverTargetReturnedOnlyAtFloor ==
  /\ []((Returned /\ OverTolerance(result.size))
          => (~cfg.allowScaleDown
              \/ ~RatioGreaterThanInverse(downscaleRatio, ScaleFloorInverse)))
  /\ [][(/\ pc = "searchDone"
         /\ OverTolerance(searchResult.size)
         /\ cfg.allowScaleDown
         /\ RatioGreaterThanInverse(downscaleRatio, ScaleFloorInverse))
        => (/\ pc' = "encoding"
            /\ result' = NoBlob
            /\ Len(renders') = Len(renders) + 1
            /\ renders'[Len(renders')].ratio = downscaleRatio'
            /\ downscaleRatio'.exp = downscaleRatio.exp + 1
            /\ downscaleRatio'.num = MulDigits(downscaleRatio.num, 9, 0))]_vars

\* an over-target blob returned with allowScaleDown on, at the floor
C3_Witness ==
  /\ Returned
  /\ OverTolerance(result.size)
  /\ cfg.allowScaleDown
  /\ ~RatioGreaterThanInverse(downscaleRatio, ScaleFloorInverse)

----------------------------------------------------------------------------
(* C4 *)

C4_Scenario ==
  /\ encoder = [kind |-> "linear", slopeKB |-> 1000]
  /\ cfg.targetSizeKB = 300
  /\ cfg.minQualitySetting = DefaultMinQuality
  /\ cfg.maxQualitySetting = DefaultMaxQuality
  /\ cfg.maxIterations = 10

\* C4: with size(q) = 1000 * q KB, target 300 KB, bounds [0.1, 0.95] and
\* maxIterations 10, the search stops within 10 iterations and returns a
\* blob of size in [295, 305] KB, at a quality within 0.005 of 0.3.
C4_ScenarioConverges ==
  (C4_Scenario /\ pc \in {"searchDone", "done"})
    => /\ iteration <= 10
       /\ searchResult.size >= 295 * BytesPerKB
       /\ searchResult.size <= 305 * BytesPerKB
       /\ Abs(1000 * searchResult.quality - 300 * QScale) <= 5 * QScale

C4_Witness ==
  /\ C4_Scenario
  /\ pc = "done"
  /\ result.size >= 295 * BytesPerKB
  /\ result.size <= 305 * BytesPerKB
  /\ encodeCalls > 1

----------------------------------------------------------------------------
(* C5 *)

RECURSIVE Pow2(_)
Pow2(n) == IF n = 0 THEN 1 ELSE 2 * Pow2(n - 1)

\* size in bytes of the linear encoder's blob at a quality
LinearSize(quality) == (encoder.slopeKB * quality) \div (QScale \div BytesPerKB)

\* a linear encoder and a target it reaches inside [minQuality, maxQuality]
C5_LinearReachable ==
  /\ encoder.kind = "linear"
  /\ Accepted
  /\ ValidRequest
  /\ LinearSize(cfg.minQualitySetting) <= cfg.targetSizeKB * BytesPerKB
  /\ cfg.targetSizeKB * BytesPerKB <= LinearSize(cfg.maxQualitySetting)

\* the last bisection step is not coarser than the tolerance:
\* slope * (maxQuality - minQuality) / 2^(maxIterations - 1) <= tolerance
C5_Resolvable ==
  encoder.slopeKB * (cfg.maxQualitySetting - cfg.minQualitySetting)
    <= ToleranceKB * QScale * Pow2(cfg.maxIterations - 1)

----------------------------------------------------------------------------
(* C6 *)

\* C6 as stated: the downscaleRatio values used for rendering are
\* non-increasing and none of them is below 0.25.
C6_RatiosNeverBelowFloor ==
  \A i \in 1..Len(renders) :
     /\ ~RatioLessThanInverse(renders[i].ratio, ScaleFloorInverse)
     /\ i > 1 => RatioLeq(renders[i].ratio, renders[i - 1].ratio)

\* 0.225 = 0.25 * 0.9
RatioFloorTimesStep == [num |-> <<5, 2, 2>>, exp |-> 3]

\* C6 amended: the downscaleRatio values used for rendering start at 1.0 and
\* are non-increasing, each retry using 0.9 times the previous value; every
\* attempt that is followed by a retry was rendered above 0.25, so every
\* value is above 0.225 and only the last attempt can be rendered below
\* 0.25.
C6_RatiosDecreaseToOneStepBelowFloor ==
  \A i \in 1..Len(renders) :
     /\ i = 1 => renders[i].ratio = RatioOne
     /\ ~RatioLeq(renders[i].ratio, RatioFloorTimesStep)
     /\ i > 1 =>
          /\ RatioLeq(renders[i].ratio, renders[i - 1].ratio)
          /\ renders[i].ratio.exp = renders[i - 1].ratio.exp + 1
          /\ renders[i].ratio.num = MulDigits(renders[i - 1].ratio.num, 9, 0)
          /\ RatioGreaterThanInverse(renders[i - 1].ratio, ScaleFloorInverse)

\* a request whose last attempt is rendered below 0.25
C6_Witness ==
  /\ Len(renders) > 1
  /\ RatioLessThanInverse(renders[Len(renders)].ratio, ScaleFloorInverse)
  /\ pc = "done"

----------------------------------------------------------------------------
(* C7 *)

\* C7 as stated: one request performs at most 14 attempts.
C7_AtMostFourteenAttempts == Len(renders) <= 14

\* C7 amended: one request performs at most 15 attempts (ratios 0.9^0 to
\* 0.9^14), whatever sizes the encoder returns.
C7_AtMostFifteenAttempts == Len(renders) <= 15

C7_Witness == Returned /\ Len(renders) = 15

----------------------------------------------------------------------------
(* C8 *)

ScaleDownDisabled ==
  Has(options, "allowScaleDown") /\ options["allowScaleDown"] = FALSE

\* C8: with allowScaleDown false the request renders once, at downscaleRatio
\* 1.0 (the source size when no maxWidth / maxHeight is set), runs one
\* quality search and returns that search's blob even when it exceeds
\* target + tolerance.
C8_SingleAttemptWithoutScaleDown ==
  ScaleDownDisabled
    => /\ Len(renders) <= 1
       /\ renders # <<>> =>
            /\ renders[1].ratio = RatioOne
            /\ (cfg.maxWidth = 0 /\ cfg.maxHeight = 0)
                 => /\ renders[1].width = image.width
                    /\ renders[1].height = image.height
       /\ encodeCalls <= cfg.maxIterations
       /\ pc = "done" =>
            /\ Len(renders) = 1
            /\ result = searchResult
            /\ result.attempt = 1

C8_Witness ==
  /\ ScaleDownDisabled
  /\ Returned
  /\ OverTolerance(result.size)

----------------------------------------------------------------------------
(* C9 *)

\* a render at downscaleRatio 1.0 with maxWidth below the source width
C9_Premise ==
  /\ pc = "drawn"
  /\ downscaleRatio = RatioOne
  /\ cfg.maxWidth # 0
  /\ cfg.maxWidth < image.width

C9_Expected ==
  /\ canvas.width = cfg.maxWidth
  /\ canvas.height = RoundDiv(image.height * cfg.maxWidth, image.width)

\* C9 as stated: such a render has width maxWidth and height equal to the
\* source height scaled by maxWidth / sourceWidth, for any maxHeight.
C9_WidthClampedForAnyMaxHeight == C9_Premise => C9_Expected

\* C9 amended: such a render has width maxWidth and height equal to the
\* source height scaled by maxWidth / sourceWidth (rounded) when maxHeight
\* is absent or not below that scaled height.
C9_WidthClampedWhenHeightFits ==
  (/\ C9_Premise
   /\ \/ cfg.maxHeight = 0
      \/ RoundDiv(image.height * cfg.maxWidth, image.width) <= cfg.maxHeight)
    => C9_Expected

C9_Witness ==
  /\ C9_Premise
  /\ cfg.maxHeight # 0
  /\ canvas.width = cfg.maxWidth
  /\ canvas.height < image.height
  /\ canvas.height <= cfg.maxHeight

----------------------------------------------------------------------------
(* C10 *)

\* C10: for a valid request every supplied option is used as given and the
\* default is used only for an absent option; every quality search starts
\* with low = minQuality and high = maxQuality of the request.
C10_OptionsUsedAsGiven ==
  (Accepted /\ ValidRequest)
    => /\ cfg.maxIterations
            = Given(options, "maxIterations", DefaultMaxIterations)
       /\ cfg.minQualitySetting
            = Given(options, "minQuality", DefaultMinQuality)
       /\ cfg.maxQualitySetting
            = Given(options, "maxQuality", DefaultMaxQuality)
       /\ cfg.allowScaleDown = Given(options, "allowScaleDown", TRUE)
       /\ (pc = "encoding" /\ iteration = 0)
            => /\ low = Given(options, "minQuality", DefaultMinQuality)
               /\ high = Given(options, "maxQuality", DefaultMaxQuality)

----------------------------------------------------------------------------
(* C11 *)

\* number of canvasToBlob calls whose callback has not run yet
OutstandingEncodes == encodeCalls - encodeReturns

\* the canvas holds the render of the current attempt
RenderComplete ==
  /\ Len(renders) >= 1
  /\ canvas.width = renders[Len(renders)].width
  /\ canvas.height = renders[Len(renders)].height

\* C11: within one request the steps are totally ordered.  At most one
\* encode is outstanding at any time; while one is outstanding the render of
\* its attempt is complete and the searches of all earlier attempts have
\* returned; an encode is issued only when every earlier encode has
\* returned; and a render is made only when no encode is outstanding and
\* the search of the previous attempt has returned its blob.
C11_StepsTotallyOrdered ==
  /\ [](/\ OutstandingEncodes \in {0, 1}
        /\ (OutstandingEncodes = 1 =>
               (RenderComplete /\ searchReturns = Len(renders) - 1))
        /\ (OutstandingEncodes = 0 => searchReturns = Len(renders)))
  /\ [][/\ (encodeCalls' # encodeCalls =>
               (/\ encodeCalls' = encodeCalls + 1
                /\ encodeReturns' = encodeCalls))
         /\ (renders' # renders =>
               (/\ Len(renders') = Len(renders) + 1
                /\ OutstandingEncodes = 0
                /\ searchReturns = Len(renders)))]_vars

\* the second encode of a retry has been issued
C11_Witness ==
  /\ pc = "encoding"
  /\ Len(renders) >= 2
  /\ iteration >= 1
  /\ OutstandingEncodes = 1

----------------------------------------------------------------------------
(* C12 *)

\* a quality search is in progress or has just returned
InSearch == pc \in {"encoding", "searchDone"}

\* C12: for every valid request (0 <= minQuality < maxQuality <= 1), at
\* every step of every quality search,
\* 0 <= low <= currentQuality <= high <= 1.
C12_QualityBoundsOrdered ==
  (ValidRequest /\ InSearch) =>
    /\ 0 <= low
    /\ low <= currentQuality
    /\ currentQuality <= high
    /\ high <= QScale

----------------------------------------------------------------------------
(* C13 *)

\* positions in the current search of the encodes whose blob conformed
ConformingEncodes ==
  {i \in 1..Len(encoded) : Conforms(encoded[i].size, cfg.targetSizeKB)}

\* C13: bestBlob, whenever it is set, has size <= target and is the blob of
\* the latest conforming encode of the search; a search returns bestBlob if
\* any encode of that search had size <= target, so that the returned blob
\* then has size <= target, and otherwise returns the blob of its last
\* encode.
C13_SearchReturnsBestElseLast ==
  InSearch =>
    /\ (bestBlob # NoBlob) = (ConformingEncodes # {})
    /\ bestBlob # NoBlob =>
          /\ Conforms(bestBlob.size, cfg.targetSizeKB)
          /\ \E i \in ConformingEncodes :
                /\ bestBlob = encoded[i]
                /\ \A j \in ConformingEncodes : j <= i
    /\ pc = "searchDone" =>
          /\ (ConformingEncodes # {} =>
                (/\ searchResult = bestBlob
                 /\ Conforms(searchResult.size, cfg.targetSizeKB)))
          /\ (ConformingEncodes = {} =>
                searchResult = encoded[Len(encoded)])

\* a search returned an earlier, conforming blob although its last encode
\* exceeded the target
C13_Witness ==
  /\ pc = "searchDone"
  /\ ConformingEncodes # {}
  /\ ~Conforms(encoded[Len(encoded)].size, cfg.targetSizeKB)
  /\ searchResult = bestBlob

----------------------------------------------------------------------------
(* C14 *)

\* the qualities at which the current search has encoded, in order
TriedQualities == [i \in 1..Len(encoded) |-> encoded[i].quality]

\* C14: in a search of a valid request in which every encode so far
\* exceeded the target, every quality tried, and the quality of the encode
\* outstanding, is strictly greater than minQuality; and when such a search
\* returns, it returns the blob of its last encode, whose quality is the
\* lowest the search tried.
C14_AllOverReturnsLowestTried ==
  (ValidRequest /\ InSearch /\ ConformingEncodes = {}) =>
    /\ \A i \in 1..Len(encoded) :
          TriedQualities[i] > Given(options, "minQuality", DefaultMinQuality)
    /\ pc = "encoding" =>
          currentQuality > Given(options, "minQuality", DefaultMinQuality)
    /\ pc = "searchDone" =>
          /\ searchResult = encoded[Len(encoded)]
          /\ \A i \in 1..Len(encoded) :
                TriedQualities[i] >= searchResult.quality

----------------------------------------------------------------------------
(* C15 *)

\* the first encode of an attempt is outstanding
AttemptStart == pc = "encoding" /\ iteration = 0

\* a blob that is absent or was encoded in the current attempt
OfCurrentAttempt(blob) == blob = NoBlob \/ blob.attempt = Len(renders)

\* C15: every attempt of a valid request, retries included, starts its
\* search with low = minQuality, high = maxQuality,
\* currentQuality = maxQuality, iteration = 0 and no bestBlob; the first
\* encode of every attempt is at maxQuality; and the blobs a search holds
\* and returns, and the blob the request returns, were all encoded in the
\* latest attempt.
C15_EveryAttemptStartsFresh ==
  ValidRequest =>
    /\ AttemptStart =>
          /\ low = Given(options, "minQuality", DefaultMinQuality)
          /\ high = Given(options, "maxQuality", DefaultMaxQuality)
          /\ currentQuality = Given(options, "maxQuality", DefaultMaxQuality)
          /\ bestBlob = NoBlob
          /\ encoded = <<>>
    /\ (InSearch /\ Len(encoded) >= 1) =>
          encoded[1].quality = Given(options, "maxQuality", DefaultMaxQuality)
    /\ InSearch =>
          /\ OfCurrentAttempt(bestBlob)
          /\ \A i \in 1..Len(encoded) : OfCurrentAttempt(encoded[i])
    /\ pc = "searchDone" =>
          (searchResult # NoBlob /\ OfCurrentAttempt(searchResult))
    /\ Returned => OfCurrentAttempt(result)

----------------------------------------------------------------------------
(* C16 *)

\* the size is at most 5 KB away from the target
NearTarget(size) ==
  /\ size <= (cfg.targetSizeKB + ToleranceKB) * BytesPerKB
  /\ size >= (cfg.targetSizeKB - ToleranceKB) * BytesPerKB

\* a search of a valid request has returned before reaching maxIterations,
\* that is, because of the test on the size
StoppedBeforeMaxIterations ==
  /\ ValidRequest
  /\ pc = "searchDone"
  /\ iteration < cfg.maxIterations

----------------------------------------------------------------------------
(* C17 *)

\* width * height of the i-th render of the request
RenderedArea(i) == renders[i].width * renders[i].height

\* C17: for every pair of consecutive attempts, the rendered width * height
\* of the later attempt is strictly less than that of the earlier one.
C17_RetryRendersStrictlySmaller ==
  \A i \in 1..(Len(renders) - 1) : RenderedArea(i + 1) < RenderedArea(i)

----------------------------------------------------------------------------
(* C18 *)

\* maxWidth and maxHeight, where supplied, are positive
PositiveMaxDimensions ==
  /\ Has(options, "maxWidth") => options["maxWidth"] >= 1
  /\ Has(options, "maxHeight") => options["maxHeight"] >= 1

\* C18: for every source with width >= 1 and height >= 1 and every positive
\* maxWidth / maxHeight, every render, at any ratio the retry loop reaches,
\* has width >= 1 and height >= 1.
C18_RenderHasPositiveDimensions ==
  (image.width >= 1 /\ image.height >= 1 /\ PositiveMaxDimensions) =>
    \A i \in 1..Len(renders) :
      renders[i].width >= 1 /\ renders[i].height >= 1

----------------------------------------------------------------------------
(* C19 *)

\* C19: every render, at every downscaleRatio in (0, 1], has
\* width <= maxWidth when maxWidth is set, height <= maxHeight when
\* maxHeight is set, and neither dimension above the source's.
C19_RenderWithinMaxAndSource ==
  \A i \in 1..Len(renders) :
    /\ (Has(options, "maxWidth") /\ options["maxWidth"] >= 1) =>
          renders[i].width <= options["maxWidth"]
    /\ (Has(options, "maxHeight") /\ options["maxHeight"] >= 1) =>
          renders[i].height <= options["maxHeight"]
    /\ renders[i].width <= image.width
    /\ renders[i].height <= image.height

\* a render at a ratio below 1 in which both the width clamp and the height
\* clamp took effect
C19_Witness ==
  /\ Has(options, "maxWidth") /\ options["maxWidth"] >= 1
  /\ Has(options, "maxHeight") /\ options["maxHeight"] >= 1
  /\ \E i \in 1..Len(renders) :
       \E d \in {ScaleByRatio(image, renders[i].ratio)} :
         /\ RatioLessThanOne(renders[i].ratio)
         /\ d.width > options["maxWidth"]
         /\ ClampToMaxWidth(d, options["maxWidth"]).height
              > options["maxHeight"]
         /\ renders[i].height = options["maxHeight"]

----------------------------------------------------------------------------
(* C20 *)

\* the encoder's size is non-decreasing in quality
MonotoneEncoder == encoder.kind \in {"linear", "step"}

\* C20: with an encoder whose size is non-decreasing in quality and a valid
\* request (minQuality < maxQuality), the qualities of successive conforming
\* encodes of a search are non-decreasing, bestBlob is at every step the
\* largest of the conforming blobs encoded so far in that search, and the
\* search returns it when any encode conformed.
C20_BestBlobIsLargestConforming ==
  (MonotoneEncoder /\ ValidRequest /\ InSearch) =>
    /\ \A i, j \in ConformingEncodes :
          i < j => encoded[i].quality <= encoded[j].quality
    /\ \A i \in ConformingEncodes :
          /\ encoded[i].size <= bestBlob.size
          /\ encoded[i].quality <= bestBlob.quality
    /\ (pc = "searchDone" /\ ConformingEncodes # {}) =>
          (/\ searchResult \in {encoded[i] : i \in ConformingEncodes}
           /\ \A i \in ConformingEncodes :
                 encoded[i].size <= searchResult.size)

\* a search returned after at least three conforming encodes of different
\* sizes
C20_Witness ==
  /\ MonotoneEncoder /\ ValidRequest
  /\ pc = "searchDone"
  /\ \E i, j, k \in ConformingEncodes :
       /\ encoded[i].size < encoded[j].size
       /\ encoded[j].size < encoded[k].size
       /\ searchResult = encoded[k]

====
